---- MODULE Spec2Model ----
(***************************************************************************)
(* State-machine model of scripts/opencv_stream.py: one capture thread     *)
(* (capture_thread) publishing JPEG frames into the module-level slot      *)
(* _latest_frame under _frame_lock, and a single-threaded HTTPServer whose *)
(* handler (MJPEGHandler.do_GET) runs on the main thread inside            *)
(* serve_forever.                                                          *)
(*                                                                         *)
(* Frames are numbered 1, 2, ... in the order they are encoded; None is 0. *)
(***************************************************************************)
EXTENDS Naturals, Sequences, FiniteSets

\* ------------------------------------------------------------------ bounds
MaxFrames  == 2     \* successful device reads during a run
MaxFails   == 2     \* consecutive failed reads that are counted
MaxParts   == 2     \* parts of a connection that are logged

Clients == {1, 2}
None    == 0
Methods == {"GET", "POST"}
Paths   == {"/video", "/nonexistent"}

VARIABLES
    latest_frame,   \* _latest_frame: None or the frame last published
    running,        \* _running
    frame_lock,     \* holder of _frame_lock: "free", "producer", "handler"
    ppc,            \* position of capture_thread
    cap,            \* the device handle: "none", "open", "failed", "released"
    buf,            \* capture_thread's encoded buffer (None before the first)
    nframes,        \* frames encoded so far
    fails,          \* consecutive failed reads (history, saturating)
    published,      \* history: the frames stored into the slot so far
    mpc,            \* position of the main thread (main and the handler it runs)
    listener,       \* TRUE once HTTPServer has bound its listening socket
    cur,            \* the client whose request the main thread is handling, or 0
    frame,          \* do_GET's local variable frame
    conn,           \* per client: "idle", "queued", "active", "closed", "aborted"
    req,            \* per client: the request [method, path]
    peer,           \* per client: "ok", "stalled", "gone"
    status,         \* per client: status code written (0: none yet)
    headers,        \* per client: response header names written
    body,           \* per client: the body chunks written (logged prefix)
    errLogged,      \* clients whose request ended in a traceback (handle_error)
    stdout,         \* the diagnostic lines printed so far
    reads,          \* history: the values the copies since the last publish returned
    fps,            \* args.fps, in thousandths of a frame per second
    interval,       \* capture_thread's interval, in microseconds (0: not yet set)
    paced           \* history: the length of the last pacing sleep (0: none yet)

vars == <<latest_frame, running, frame_lock, ppc, cap, buf, nframes, fails,
          published, mpc, listener, cur, frame, conn, req, peer, status,
          headers, body, errLogged, stdout,
          reads, fps, interval, paced>>

prodVars == <<latest_frame, frame_lock, ppc, cap, buf, nframes, fails, published>>
mainVars == <<running, mpc, listener, cur, frame>>
respVars == <<status, headers, body, stdout>>
cliVars  == <<conn, req, peer>>

\* ----------------------------------------------------------------- helpers
Chunk(kind, f) == [k |-> kind, f |-> f]

StreamHeaders == {"Content-Type: multipart/x-mixed-replace; boundary=frame",
                  "Access-Control-Allow-Origin: *",
                  "Cache-Control: no-cache, no-store"}

\* The handler positions that lie inside do_GET's while True loop.
LoopPCs  == {"hlock", "hcopy", "hunlock", "hcheck", "w1", "w2", "w3", "w4", "hsleep"}
WritePCs == {"w1", "w2", "w3", "w4"}
\* Every position at which the main thread is inside a request handler.
HandlerPCs == LoopPCs \cup {"dispatch", "do_GET", "h404", "h501", "h200",
                            "hexcept", "hret", "herror"}

Alive == mpc # "exited"

\* body[c] keeps the first MaxParts parts (four chunks each).
Log(c, chunk) ==
    IF Len(body[c]) < 4 * MaxParts
    THEN [body EXCEPT ![c] = Append(@, chunk)]
    ELSE body

\* parser.add_argument("--fps", type=float, default=15.0)
DefaultFps == 15000

Max(a, b) == IF a >= b THEN a ELSE b

\* Mutant of Interval: the reciprocal of the rate, without the clamp.
Interval_NoClamp(f) == 1000000000 \div f

\* interval = 1.0 / max(fps, 1.0)
Interval(f) == 1000000000 \div Max(f, 1000)

\* Everything but the configured rate, as it is when main starts.
InitState ==
    /\ latest_frame = None
    /\ running = TRUE
    /\ frame_lock = "free"
    /\ ppc = "init"
    /\ cap = "none"
    /\ buf = None
    /\ nframes = 0
    /\ fails = 0
    /\ published = {}
    /\ mpc = "start"
    /\ listener = FALSE
    /\ cur = 0
    /\ frame = None
    /\ conn = [c \in Clients |-> "idle"]
    /\ req = [c \in Clients |-> [method |-> "GET", path |-> "/video"]]
    /\ peer = [c \in Clients |-> "ok"]
    /\ status = [c \in Clients |-> 0]
    /\ headers = [c \in Clients |-> {}]
    /\ body = [c \in Clients |-> <<>>]
    /\ errLogged = {}
    /\ stdout = {}
    /\ reads = {}
    /\ interval = 0
    /\ paced = 0

Init == InitState /\ fps = DefaultFps

\* ------------------------------------------------------- capture_thread
\* Mutant of POpen: the return after the error message is missing.
POpen_NoReturn ==
    /\ Alive /\ ppc = "open"
    /\ \E ok \in BOOLEAN :
         IF ok THEN cap' = "open" /\ stdout' = stdout
               ELSE /\ cap' = "failed"
                    /\ stdout' = stdout \cup {"ERROR: Cannot open camera device"}
    /\ interval' = Interval(fps)
    /\ ppc' = "loop"
    /\ UNCHANGED <<latest_frame, frame_lock, buf, nframes, fails, published>>
    /\ UNCHANGED <<mainVars, cliVars, status, headers, body, errLogged>>
    /\ UNCHANGED <<reads, fps, paced>>

\* cap = cv2.VideoCapture(device); if not cap.isOpened(): print, return.
POpen ==
    /\ Alive /\ ppc = "open"
    /\ \E ok \in BOOLEAN :
         IF ok THEN /\ cap' = "open"
                    /\ interval' = Interval(fps)
                    /\ ppc' = "loop"
                    /\ stdout' = stdout
               ELSE /\ cap' = "failed"
                    /\ stdout' = stdout \cup {"ERROR: Cannot open camera device"}
                    /\ ppc' = "returned"
                    /\ interval' = interval
    /\ UNCHANGED <<latest_frame, frame_lock, buf, nframes, fails, published>>
    /\ UNCHANGED <<mainVars, cliVars, status, headers, body, errLogged>>
    /\ UNCHANGED <<reads, fps, paced>>

\* while _running: ... / cap.release() after the loop.
PLoop ==
    /\ Alive /\ ppc = "loop"
    /\ ppc' = IF running THEN "read" ELSE "release"
    /\ UNCHANGED <<latest_frame, frame_lock, cap, buf, nframes, fails, published>>
    /\ UNCHANGED <<mainVars, cliVars, respVars, errLogged>>
    /\ UNCHANGED <<reads, fps, interval, paced>>

\* Mutant of PBackoff: a failed read clears the slot before the retry.
PBackoff_ClearsSlot ==
    /\ Alive /\ ppc = "backoff"
    /\ ppc' = "loop"
    /\ latest_frame' = None
    /\ UNCHANGED <<frame_lock, cap, buf, nframes, fails, published>>
    /\ UNCHANGED <<mainVars, cliVars, respVars, errLogged>>
    /\ UNCHANGED <<reads, fps, interval, paced>>

\* ret, frame = cap.read() with ret true.
PReadOk ==
    /\ Alive /\ ppc = "read"
    /\ nframes < MaxFrames
    /\ ppc' = "encode"
    /\ fails' = 0
    /\ UNCHANGED <<latest_frame, frame_lock, cap, buf, nframes, published>>
    /\ UNCHANGED <<mainVars, cliVars, respVars, errLogged>>
    /\ UNCHANGED <<reads, fps, interval, paced>>

\* Mutant of PReadFail: break instead of sleep-and-continue.
PReadFail_Break ==
    /\ Alive /\ ppc = "read"
    /\ ppc' = "release"
    /\ fails' = IF fails < MaxFails THEN fails + 1 ELSE fails
    /\ UNCHANGED <<latest_frame, frame_lock, cap, buf, nframes, published>>
    /\ UNCHANGED <<mainVars, cliVars, respVars, errLogged>>
    /\ UNCHANGED <<reads, fps, interval, paced>>

\* ret, frame = cap.read() with ret false: time.sleep(0.1); continue.
PReadFail ==
    /\ Alive /\ ppc = "read"
    /\ ppc' = "backoff"
    /\ fails' = IF fails < MaxFails THEN fails + 1 ELSE fails
    /\ UNCHANGED <<latest_frame, frame_lock, cap, buf, nframes, published>>
    /\ UNCHANGED <<mainVars, cliVars, respVars, errLogged>>
    /\ UNCHANGED <<reads, fps, interval, paced>>

PBackoff ==
    /\ Alive /\ ppc = "backoff"
    /\ ppc' = "loop"
    /\ UNCHANGED <<latest_frame, frame_lock, cap, buf, nframes, fails, published>>
    /\ UNCHANGED <<mainVars, cliVars, respVars, errLogged>>
    /\ UNCHANGED <<reads, fps, interval, paced>>

\* Mutant of PEncode: the buffers come out newest-first, so that a later
\* publish stores an older image.
PEncode_NewestFirst ==
    /\ Alive /\ ppc = "encode"
    /\ nframes' = nframes + 1
    /\ buf' = MaxFrames - nframes
    /\ ppc' = "lock"
    /\ UNCHANGED <<latest_frame, frame_lock, cap, fails, published>>
    /\ UNCHANGED <<mainVars, cliVars, respVars, errLogged>>
    /\ UNCHANGED <<reads, fps, interval, paced>>

\* _, buf = cv2.imencode(".jpg", frame, ...): a new buffer for every frame.
PEncode ==
    /\ Alive /\ ppc = "encode"
    /\ nframes' = nframes + 1
    /\ buf' = nframes + 1
    /\ ppc' = "lock"
    /\ UNCHANGED <<latest_frame, frame_lock, cap, fails, published>>
    /\ UNCHANGED <<mainVars, cliVars, respVars, errLogged>>
    /\ UNCHANGED <<reads, fps, interval, paced>>

\* with _frame_lock: (acquire)
PAcquire ==
    /\ Alive /\ ppc = "lock"
    /\ frame_lock = "free"
    /\ frame_lock' = "producer"
    /\ ppc' = "store"
    /\ UNCHANGED <<latest_frame, cap, buf, nframes, fails, published>>
    /\ UNCHANGED <<mainVars, cliVars, respVars, errLogged>>
    /\ UNCHANGED <<reads, fps, interval, paced>>

\* Mutant of PStore: a frame is stored only into an empty slot.
PStore_KeepsFirst ==
    /\ Alive /\ ppc = "store"
    /\ latest_frame' = IF latest_frame = None THEN buf ELSE latest_frame
    /\ published' = published \cup {buf}
    /\ reads' = {}
    /\ ppc' = "unlock"
    /\ UNCHANGED <<frame_lock, cap, buf, nframes, fails>>
    /\ UNCHANGED <<mainVars, cliVars, respVars, errLogged>>
    /\ UNCHANGED <<fps, interval, paced>>

\* _latest_frame = buf.tobytes()
PStore ==
    /\ Alive /\ ppc = "store"
    /\ latest_frame' = buf
    /\ published' = published \cup {buf}
    /\ reads' = {}
    /\ ppc' = "unlock"
    /\ UNCHANGED <<frame_lock, cap, buf, nframes, fails>>
    /\ UNCHANGED <<mainVars, cliVars, respVars, errLogged>>
    /\ UNCHANGED <<fps, interval, paced>>

\* Mutant of PRelease: the pacing sleep is inside the with block.
PRelease_AfterSleep ==
    /\ Alive /\ ppc = "unlock"
    /\ ppc' = "sleep"
    /\ UNCHANGED <<latest_frame, frame_lock, cap, buf, nframes, fails, published>>
    /\ UNCHANGED <<mainVars, cliVars, respVars, errLogged>>
    /\ UNCHANGED <<reads, fps, interval, paced>>

\* leaving the with block (release)
PRelease ==
    /\ Alive /\ ppc = "unlock"
    /\ frame_lock' = "free"
    /\ ppc' = "sleep"
    /\ UNCHANGED <<latest_frame, cap, buf, nframes, fails, published>>
    /\ UNCHANGED <<mainVars, cliVars, respVars, errLogged>>
    /\ UNCHANGED <<reads, fps, interval, paced>>

\* time.sleep(interval)
PSleep ==
    /\ Alive /\ ppc = "sleep"
    /\ paced' = interval
    /\ ppc' = "loop"
    /\ UNCHANGED <<latest_frame, frame_lock, cap, buf, nframes, fails, published>>
    /\ UNCHANGED <<mainVars, cliVars, respVars, errLogged>>
    /\ UNCHANGED <<reads, fps, interval>>

\* cap.release()
PCapRelease ==
    /\ Alive /\ ppc = "release"
    /\ cap' = "released"
    /\ ppc' = "done"
    /\ UNCHANGED <<latest_frame, frame_lock, buf, nframes, fails, published>>
    /\ UNCHANGED <<mainVars, cliVars, respVars, errLogged>>
    /\ UNCHANGED <<reads, fps, interval, paced>>

Producer ==
    \/ POpen \/ PLoop \/ PReadOk \/ PReadFail \/ PBackoff \/ PEncode
    \/ PAcquire \/ PStore \/ PRelease \/ PSleep \/ PCapRelease

\* ------------------------------------------------------------- the socket
\* A write to client c's socket returns when the peer takes the bytes (or has
\* gone and the kernel still accepts them); it blocks while the peer is stalled.
WriteReturns(c) == peer[c] \in {"ok", "gone"}
\* A write to a peer that has disconnected may raise BrokenPipeError or
\* ConnectionResetError.
WriteRaises(c) == peer[c] = "gone"

\* ------------------------------------------------------------------- main
\* t = threading.Thread(target=capture_thread, ..., daemon=True); t.start()
MStart ==
    /\ mpc = "start"
    /\ mpc' = "bind"
    /\ ppc' = "open"
    /\ UNCHANGED <<latest_frame, frame_lock, cap, buf, nframes, fails, published>>
    /\ UNCHANGED <<running, listener, cur, frame, cliVars, respVars, errLogged>>
    /\ UNCHANGED <<reads, fps, interval, paced>>

\* server = HTTPServer(("127.0.0.1", args.port), MJPEGHandler); print(...)
MBind ==
    /\ mpc = "bind"
    /\ listener' = TRUE
    /\ stdout' = stdout \cup {"MJPEG stream: http://127.0.0.1:<port>/video"}
    /\ mpc' = "serve"
    /\ UNCHANGED <<running, cur, frame, prodVars, cliVars, status, headers, body, errLogged>>
    /\ UNCHANGED <<reads, fps, interval, paced>>

\* server.serve_forever(): HTTPServer handles one request at a time, on the
\* main thread; the next connection is accepted only between two handlers.
Accept(c) ==
    /\ mpc = "serve"
    /\ conn[c] = "queued"
    /\ conn' = [conn EXCEPT ![c] = "active"]
    /\ cur' = c
    /\ mpc' = "dispatch"
    /\ UNCHANGED <<running, listener, frame, req, peer, prodVars, respVars, errLogged>>
    /\ UNCHANGED <<reads, fps, interval, paced>>

\* Mutant of Dispatch: every method is routed to do_GET.
Dispatch_AnyMethod ==
    /\ mpc = "dispatch"
    /\ mpc' = "do_GET"
    /\ UNCHANGED <<running, listener, cur, frame, prodVars, cliVars, respVars, errLogged>>
    /\ UNCHANGED <<reads, fps, interval, paced>>

\* class MJPEGHandler(BaseHTTPRequestHandler) defines do_GET only: the base
\* class calls do_<METHOD> when the handler has it and sends 501 otherwise.
Dispatch ==
    /\ mpc = "dispatch"
    /\ mpc' = IF req[cur].method = "GET" THEN "do_GET" ELSE "h501"
    /\ UNCHANGED <<running, listener, cur, frame, prodVars, cliVars, respVars, errLogged>>
    /\ UNCHANGED <<reads, fps, interval, paced>>

\* The base class's answer to a method without a do_<METHOD>: status 501 and
\* an error page as body.
H501 ==
    /\ mpc = "h501"
    /\ \/ /\ WriteReturns(cur)
          /\ status' = [status EXCEPT ![cur] = 501]
          /\ headers' = [headers EXCEPT ![cur] = {"Content-Type: text/html;charset=utf-8"}]
          /\ body' = [body EXCEPT ![cur] = <<Chunk("errorpage", None)>>]
          /\ mpc' = "hret"
       \/ /\ WriteRaises(cur)
          /\ mpc' = "herror"
          /\ UNCHANGED <<status, headers, body>>
    /\ UNCHANGED <<running, listener, cur, frame, prodVars, cliVars, errLogged, stdout>>
    /\ UNCHANGED <<reads, fps, interval, paced>>

\* Mutant of DoGET: the path test is missing.
DoGET_NoPathCheck ==
    /\ mpc = "do_GET"
    /\ mpc' = "h200"
    /\ UNCHANGED <<running, listener, cur, frame, prodVars, cliVars, respVars, errLogged>>
    /\ UNCHANGED <<reads, fps, interval, paced>>

\* if self.path != "/video":
DoGET ==
    /\ mpc = "do_GET"
    /\ mpc' = IF req[cur].path # "/video" THEN "h404" ELSE "h200"
    /\ UNCHANGED <<running, listener, cur, frame, prodVars, cliVars, respVars, errLogged>>
    /\ UNCHANGED <<reads, fps, interval, paced>>

\* self.send_response(404); self.end_headers(); return
H404 ==
    /\ mpc = "h404"
    /\ \/ /\ WriteReturns(cur)
          /\ status' = [status EXCEPT ![cur] = 404]
          /\ mpc' = "hret"
       \/ /\ WriteRaises(cur)
          /\ mpc' = "herror"
          /\ UNCHANGED status
    /\ UNCHANGED <<headers, body, stdout>>
    /\ UNCHANGED <<running, listener, cur, frame, prodVars, cliVars, errLogged>>
    /\ UNCHANGED <<reads, fps, interval, paced>>

\* self.send_response(200); three send_header calls; self.end_headers()
H200 ==
    /\ mpc = "h200"
    /\ \/ /\ WriteReturns(cur)
          /\ status' = [status EXCEPT ![cur] = 200]
          /\ headers' = [headers EXCEPT ![cur] = StreamHeaders]
          /\ mpc' = "hlock"
       \/ /\ WriteRaises(cur)
          /\ mpc' = "herror"
          /\ UNCHANGED <<status, headers>>
    /\ UNCHANGED <<body, stdout>>
    /\ UNCHANGED <<running, listener, cur, frame, prodVars, cliVars, errLogged>>
    /\ UNCHANGED <<reads, fps, interval, paced>>

\* with _frame_lock: (acquire)
HAcquire ==
    /\ mpc = "hlock"
    /\ frame_lock = "free"
    /\ frame_lock' = "handler"
    /\ mpc' = "hcopy"
    /\ UNCHANGED <<latest_frame, ppc, cap, buf, nframes, fails, published>>
    /\ UNCHANGED <<running, listener, cur, frame, cliVars, respVars, errLogged>>
    /\ UNCHANGED <<reads, fps, interval, paced>>

\* Mutant of HCopy: the handler takes the producer's buffer, not the slot.
HCopy_ReadsBuf ==
    /\ mpc = "hcopy"
    /\ frame' = buf
    /\ reads' = reads \cup {buf}
    /\ mpc' = "hunlock"
    /\ UNCHANGED <<running, listener, cur, prodVars, cliVars, respVars, errLogged>>
    /\ UNCHANGED <<fps, interval, paced>>

\* Mutant of HCopy: the copy takes the frame out of the slot.
HCopy_Consumes ==
    /\ mpc = "hcopy"
    /\ frame' = latest_frame
    /\ latest_frame' = None
    /\ reads' = reads \cup {latest_frame}
    /\ mpc' = "hunlock"
    /\ UNCHANGED <<frame_lock, ppc, cap, buf, nframes, fails, published>>
    /\ UNCHANGED <<running, listener, cur, cliVars, respVars, errLogged>>
    /\ UNCHANGED <<fps, interval, paced>>

\* frame = _latest_frame
HCopy ==
    /\ mpc = "hcopy"
    /\ frame' = latest_frame
    /\ reads' = reads \cup {latest_frame}
    /\ mpc' = "hunlock"
    /\ UNCHANGED <<running, listener, cur, prodVars, cliVars, respVars, errLogged>>
    /\ UNCHANGED <<fps, interval, paced>>

\* Mutant of HRelease: the writes are inside the with block, the lock is kept.
HRelease_KeepsLock ==
    /\ mpc = "hunlock"
    /\ mpc' = "hcheck"
    /\ UNCHANGED <<running, listener, cur, frame, prodVars, cliVars, respVars, errLogged>>
    /\ UNCHANGED <<reads, fps, interval, paced>>

\* leaving the with block (release)
HRelease ==
    /\ mpc = "hunlock"
    /\ frame_lock' = "free"
    /\ mpc' = "hcheck"
    /\ UNCHANGED <<latest_frame, ppc, cap, buf, nframes, fails, published>>
    /\ UNCHANGED <<running, listener, cur, frame, cliVars, respVars, errLogged>>
    /\ UNCHANGED <<reads, fps, interval, paced>>

\* Mutant of HCheck: the test of frame is missing.
HCheck_NoTest ==
    /\ mpc = "hcheck"
    /\ mpc' = "w1"
    /\ UNCHANGED <<running, listener, cur, frame, prodVars, cliVars, respVars, errLogged>>
    /\ UNCHANGED <<reads, fps, interval, paced>>

\* if frame:
HCheck ==
    /\ mpc = "hcheck"
    /\ mpc' = IF frame # None THEN "w1" ELSE "hsleep"
    /\ UNCHANGED <<running, listener, cur, frame, prodVars, cliVars, respVars, errLogged>>
    /\ UNCHANGED <<reads, fps, interval, paced>>

\* One self.wfile.write(...) of the part: it returns (the chunk is written and
\* the handler moves on) or raises (the handler jumps to the except clause).
HWrite(at, chunk, then) ==
    /\ mpc = at
    /\ \/ /\ WriteReturns(cur)
          /\ body' = Log(cur, chunk)
          /\ mpc' = then
       \/ /\ WriteRaises(cur)
          /\ mpc' = "hexcept"
          /\ UNCHANGED body
    /\ UNCHANGED <<status, headers, stdout>>
    /\ UNCHANGED <<running, listener, cur, frame, prodVars, cliVars, errLogged>>
    /\ UNCHANGED <<reads, fps, interval, paced>>

\* self.wfile.write(b"--frame\r\n")
HWriteBoundary == HWrite("w1", Chunk("boundary", None), "w2")
\* self.wfile.write(b"Content-Type: image/jpeg\r\n\r\n")
HWriteType == HWrite("w2", Chunk("ctype", None), "w3")
\* self.wfile.write(frame)
HWriteFrame == HWrite("w3", Chunk("frame", frame), "w4")
\* self.wfile.write(b"\r\n")
HWriteEnd == HWrite("w4", Chunk("crlf", None), "hsleep")

\* time.sleep(0.05)
HSleep ==
    /\ mpc = "hsleep"
    /\ mpc' = "hlock"
    /\ UNCHANGED <<running, listener, cur, frame, prodVars, cliVars, respVars, errLogged>>
    /\ UNCHANGED <<reads, fps, interval, paced>>

\* Mutant of HExcept: the exception is not caught and leaves the handler.
HExcept_Reraise ==
    /\ mpc = "hexcept"
    /\ mpc' = "herror"
    /\ UNCHANGED <<running, listener, cur, frame, prodVars, cliVars, respVars, errLogged>>
    /\ UNCHANGED <<reads, fps, interval, paced>>

\* except (BrokenPipeError, ConnectionResetError): pass
HExcept ==
    /\ mpc = "hexcept"
    /\ mpc' = "hret"
    /\ UNCHANGED <<running, listener, cur, frame, prodVars, cliVars, respVars, errLogged>>
    /\ UNCHANGED <<reads, fps, interval, paced>>

\* Mutant of HReturn: the handler resets the slot when its connection ends.
HReturn_ResetsSlot ==
    /\ mpc = "hret"
    /\ conn' = [conn EXCEPT ![cur] = "closed"]
    /\ peer' = [peer EXCEPT ![cur] = "gone"]
    /\ cur' = 0
    /\ frame' = None
    /\ mpc' = "serve"
    /\ latest_frame' = None
    /\ UNCHANGED <<frame_lock, ppc, cap, buf, nframes, fails, published>>
    /\ UNCHANGED <<running, listener, req, respVars, errLogged>>
    /\ UNCHANGED <<reads, fps, interval, paced>>

\* do_GET returns: the server closes the connection (from then on the peer is
\* gone for the server) and goes back to serve_forever's loop.
HReturn ==
    /\ mpc = "hret"
    /\ conn' = [conn EXCEPT ![cur] = "closed"]
    /\ peer' = [peer EXCEPT ![cur] = "gone"]
    /\ cur' = 0
    /\ frame' = None
    /\ mpc' = "serve"
    /\ UNCHANGED <<running, listener, req, prodVars, respVars, errLogged>>
    /\ UNCHANGED <<reads, fps, interval, paced>>

\* A write outside do_GET's try block raised: the exception leaves the handler,
\* the server prints a traceback (handle_error), closes the connection and
\* goes back to serve_forever's loop.
HError ==
    /\ mpc = "herror"
    /\ errLogged' = errLogged \cup {cur}
    /\ conn' = [conn EXCEPT ![cur] = "aborted"]
    /\ peer' = [peer EXCEPT ![cur] = "gone"]
    /\ cur' = 0
    /\ frame' = None
    /\ mpc' = "serve"
    /\ UNCHANGED <<running, listener, req, prodVars, respVars>>
    /\ UNCHANGED <<reads, fps, interval, paced>>

\* Mutant of Interrupt: the lock is acquired and released by hand, and an
\* interrupt inside the critical section leaves it held.
Interrupt_KeepsLock ==
    /\ Alive /\ mpc # "finalize"
    /\ IF mpc \in {"start", "bind", "kbint"}
       THEN /\ mpc' = "exited"
            /\ UNCHANGED <<frame_lock, cur, frame, conn, peer>>
       ELSE /\ mpc' = "kbint"
            /\ frame_lock' = frame_lock
            /\ conn' = IF cur # 0 THEN [conn EXCEPT ![cur] = "aborted"] ELSE conn
            /\ peer' = IF cur # 0 THEN [peer EXCEPT ![cur] = "gone"] ELSE peer
            /\ cur' = 0
            /\ frame' = None
    /\ UNCHANGED <<latest_frame, ppc, cap, buf, nframes, fails, published>>
    /\ UNCHANGED <<running, listener, req, respVars, errLogged>>
    /\ UNCHANGED <<reads, fps, interval, paced>>

\* KeyboardInterrupt is raised in the main thread, wherever it is.  Inside
\* serve_forever (waiting, or in a handler) it unwinds to main's except clause:
\* a with block it leaves releases the lock, the server closes the connection
\* being handled.  Outside the try block nothing catches it and the process
\* ends.
Interrupt ==
    /\ Alive /\ mpc # "finalize"
    /\ IF mpc \in {"start", "bind", "kbint"}
       THEN /\ mpc' = "exited"
            /\ UNCHANGED <<frame_lock, cur, frame, conn, peer>>
       ELSE /\ mpc' = "kbint"
            /\ frame_lock' = IF frame_lock = "handler" THEN "free" ELSE frame_lock
            /\ conn' = IF cur # 0 THEN [conn EXCEPT ![cur] = "aborted"] ELSE conn
            /\ peer' = IF cur # 0 THEN [peer EXCEPT ![cur] = "gone"] ELSE peer
            /\ cur' = 0
            /\ frame' = None
    /\ UNCHANGED <<latest_frame, ppc, cap, buf, nframes, fails, published>>
    /\ UNCHANGED <<running, listener, req, respVars, errLogged>>
    /\ UNCHANGED <<reads, fps, interval, paced>>

\* except KeyboardInterrupt: _running = False
MSetStop ==
    /\ mpc = "kbint"
    /\ running' = FALSE
    /\ mpc' = "finalize"
    /\ UNCHANGED <<listener, cur, frame, prodVars, cliVars, respVars, errLogged>>
    /\ UNCHANGED <<reads, fps, interval, paced>>

\* main returns and the interpreter exits.  The capture thread is a daemon
\* thread: the exit does not wait for it, and it takes no step afterwards.
MExit ==
    /\ mpc = "finalize"
    /\ mpc' = "exited"
    /\ UNCHANGED <<running, listener, cur, frame, prodVars, cliVars, respVars, errLogged>>
    /\ UNCHANGED <<reads, fps, interval, paced>>

Handler ==
    \/ Dispatch \/ H501 \/ DoGET \/ H404 \/ H200
    \/ HAcquire \/ HCopy \/ HRelease \/ HCheck
    \/ HWriteBoundary \/ HWriteType \/ HWriteFrame \/ HWriteEnd
    \/ HSleep \/ HExcept \/ HReturn \/ HError

Main ==
    \/ MStart \/ MBind \/ (\E c \in Clients : Accept(c)) \/ Handler
    \/ Interrupt \/ MSetStop \/ MExit

\* ---------------------------------------------------------------- clients
\* A client connects to the listening socket and sends its request line.
Connect(c) ==
    /\ Alive /\ listener
    /\ conn[c] = "idle"
    /\ \E m \in Methods, p \in Paths :
         req' = [req EXCEPT ![c] = [method |-> m, path |-> p]]
    /\ conn' = [conn EXCEPT ![c] = "queued"]
    /\ UNCHANGED <<peer, prodVars, mainVars, respVars, errLogged>>
    /\ UNCHANGED <<reads, fps, interval, paced>>

\* The client stops reading: once the socket buffers are full, writes block.
Stall(c) ==
    /\ Alive /\ conn[c] = "active" /\ peer[c] = "ok"
    /\ peer' = [peer EXCEPT ![c] = "stalled"]
    /\ UNCHANGED <<conn, req, prodVars, mainVars, respVars, errLogged>>
    /\ UNCHANGED <<reads, fps, interval, paced>>

Resume(c) ==
    /\ Alive /\ conn[c] = "active" /\ peer[c] = "stalled"
    /\ peer' = [peer EXCEPT ![c] = "ok"]
    /\ UNCHANGED <<conn, req, prodVars, mainVars, respVars, errLogged>>
    /\ UNCHANGED <<reads, fps, interval, paced>>

\* The client closes or resets its end of the connection.
Disconnect(c) ==
    /\ Alive /\ conn[c] = "active" /\ peer[c] # "gone"
    /\ peer' = [peer EXCEPT ![c] = "gone"]
    /\ UNCHANGED <<conn, req, prodVars, mainVars, respVars, errLogged>>
    /\ UNCHANGED <<reads, fps, interval, paced>>

Client == \E c \in Clients : Connect(c) \/ Stall(c) \/ Resume(c) \/ Disconnect(c)

Next == Producer \/ Main \/ Client

Spec == Init /\ [][Next]_vars

\* The rates --fps is given in the runs that look at the pacing.
FpsChoices == {250, 500, 1000, 2000, 15000, 30000}

\* The program with any of these rates and no client: main, the capture
\* thread and the interrupt.
PacingInit == InitState /\ fps \in FpsChoices

PacingNext == MStart \/ MBind \/ Producer \/ Interrupt \/ MSetStop \/ MExit

PacingSpec == PacingInit /\ [][PacingNext]_vars

\* The scheduling the lock claims rest on: a thread that holds the lock goes
\* on to release it, and a thread waiting in acquire gets the lock if it is
\* free again and again.
LockFairness ==
    /\ SF_vars(PAcquire) /\ WF_vars(PStore) /\ WF_vars(PRelease)
    /\ SF_vars(HAcquire) /\ WF_vars(HCopy) /\ WF_vars(HRelease)

\* The program with one client connecting, under that scheduling.
LockClients == {1}

LockNext ==
    \/ Producer \/ Main
    \/ \E c \in LockClients : Connect(c) \/ Stall(c) \/ Resume(c) \/ Disconnect(c)

LockSpec == Init /\ [][LockNext]_vars /\ LockFairness

\* ------------------------------------------------------------------ claims
\* The positions of capture_thread inside its while loop.
ProducerLoopPCs == {"loop", "read", "backoff", "encode", "lock", "store", "unlock", "sleep"}

\* The frames of the parts written to client c, in the order written.
RECURSIVE FramesOf(_)
FramesOf(chunks) ==
    IF chunks = <<>> THEN <<>>
    ELSE IF Head(chunks).k = "frame"
         THEN <<Head(chunks).f>> \o FramesOf(Tail(chunks))
         ELSE FramesOf(Tail(chunks))

Sent(c) == FramesOf(body[c])

\* C1: every read of the slot by a connection loop (the step frame =
\* _latest_frame) returns None only if nothing has been published yet, and
\* otherwise a frame that was published before the read.
C1_ReadsArePublished ==
    [][(mpc = "hcopy" /\ mpc' = "hunlock") =>
          IF frame' = None THEN published = {} ELSE frame' \in published]_vars

\* A connection has just read frame 1 under the lock while the producer, with
\* frame 2 encoded and not yet published, waits for the lock.
C1_Witness ==
    /\ mpc = "hunlock" /\ frame = 1
    /\ ppc = "lock" /\ buf = 2 /\ published = {1}

\* C2 (as claimed): while a /video send loop is running, a client that has
\* connected can be accepted and served: the running loop does not keep the
\* server from taking the next connection.
C2_LoopsIndependent ==
    \A c \in Clients :
        (mpc \in LoopPCs /\ conn[c] = "queued") => ENABLED Accept(c)

\* C3: the frames a connection sends are non-decreasing in publish order.
C3_Monotonic ==
    \A c \in Clients : \A i, j \in DOMAIN Sent(c) :
        i < j => Sent(c)[i] <= Sent(c)[j]

\* A connection that has sent frame 1 and then frame 2.
C3_Witness == \E c \in Clients : Sent(c) = <<1, 2>>

\* C4: a connection at a socket write does not hold the frame lock, and the
\* producer, when in its loop, has a step it can take.
C4_ProducerNotDelayed ==
    mpc \in WritePCs =>
        /\ frame_lock # "handler"
        /\ ppc \in ProducerLoopPCs => ENABLED Producer

\* The connection is blocked writing frame 1 to a stalled client while the
\* producer has published frame 2 inside its critical section.
C4_Witness ==
    /\ mpc = "w3" /\ peer[cur] = "stalled" /\ frame = 1
    /\ ppc = "unlock" /\ latest_frame = 2

\* C5: when the device cannot be opened the producer has reported it and has
\* returned, nothing is ever published, and a /video connection in its send
\* loop has its 200 and stream headers written and no chunk of a part.
C5_OpenFailure ==
    cap = "failed" =>
        /\ ppc = "returned"
        /\ "ERROR: Cannot open camera device" \in stdout
        /\ latest_frame = None /\ published = {} /\ nframes = 0
        /\ \A c \in Clients :
              /\ \A i \in DOMAIN body[c] : body[c][i].k = "errorpage"
              /\ (cur = c /\ mpc \in LoopPCs) =>
                    status[c] = 200 /\ headers[c] = StreamHeaders /\ body[c] = <<>>

\* The device failed to open and a /video connection is in the pacing sleep
\* of its send loop, with 200 written and an empty body.
C5_Witness ==
    /\ cap = "failed" /\ ppc = "returned"
    /\ mpc = "hsleep" /\ status[cur] = 200 /\ body[cur] = <<>>

\* C6: a write of the send loop that fails because the peer is gone changes
\* nothing but the handler's position; the except clause leads to the
\* handler's return; the return closes that connection and puts the server
\* back into its accept loop; no traceback is logged, the slot and the stop
\* flag are untouched, and the producer is not affected.
C6_DisconnectStep ==
    /\ (mpc \in WritePCs /\ mpc' = "hexcept") =>
          UNCHANGED <<latest_frame, running, errLogged, prodVars, conn, cur>>
    /\ (mpc = "hexcept" /\ mpc' \notin {"hexcept", "kbint"}) =>
          /\ mpc' = "hret"
          /\ UNCHANGED <<latest_frame, running, errLogged, prodVars, conn, cur>>
    /\ (mpc = "hret" /\ mpc' \notin {"hret", "kbint"}) =>
          /\ mpc' = "serve"
          /\ conn' = [conn EXCEPT ![cur] = "closed"]
          /\ UNCHANGED <<latest_frame, running, errLogged, prodVars>>

C6_DisconnectState ==
    mpc \in {"hexcept", "hret"} =>
        /\ running
        /\ frame_lock # "handler"
        /\ cur \notin errLogged
        /\ ppc \in ProducerLoopPCs => ENABLED Producer

C6_Disconnect == []C6_DisconnectState /\ [][C6_DisconnectStep]_vars

\* A client that received one whole part and half of the next has gone, the
\* write has failed, and another client is waiting to be accepted.
C6_Witness ==
    /\ mpc = "hexcept" /\ Len(body[cur]) = 6 /\ peer[cur] = "gone"
    /\ \E c \in Clients : conn[c] = "queued"

\* C7: a failed read leaves the slot as it is and sends the producer to its
\* backoff and back to the loop head; after failed reads the producer is in
\* its loop unless the stop flag was cleared; a frame that is read is stored
\* as encoded.
C7_ReadFailStep ==
    /\ ppc = "read" => ppc' \in {"read", "backoff", "encode"}
    /\ (ppc = "read" /\ ppc' = "backoff") =>
          latest_frame' = latest_frame /\ published' = published
    /\ (ppc = "backoff" /\ ppc' # "backoff") =>
          ppc' = "loop" /\ latest_frame' = latest_frame
    /\ (ppc = "loop" /\ running /\ ppc' # "loop") => ppc' = "read"
    /\ (ppc = "store" /\ ppc' # "store") => latest_frame' = buf

C7_ReadFailState ==
    fails > 0 =>
        \/ ppc \in {"backoff", "loop", "read"}
        \/ ~running /\ ppc \in {"release", "done"}

C7_ReadFailure == []C7_ReadFailState /\ [][C7_ReadFailStep]_vars

\* MaxFails reads in a row have failed after a frame was published: the slot
\* still holds that frame and the producer is backing off, still running.
C7_Witness ==
    /\ fails = MaxFails /\ ppc = "backoff" /\ running
    /\ latest_frame = 1 /\ published = {1}

\* C8: a GET for a path other than /video gets 404 and nothing else: no
\* header, no body, no read of the slot, no position inside the send loop;
\* when the handler returns, the 404 has been written.
C8_NotFound ==
    \A c \in Clients :
        (req[c].method = "GET" /\ req[c].path # "/video") =>
            /\ status[c] \in {0, 404}
            /\ headers[c] = {} /\ body[c] = <<>>
            /\ cur = c => /\ mpc \in {"dispatch", "do_GET", "h404", "hret", "herror"}
                          /\ frame = None
                          /\ mpc = "hret" => status[c] = 404
            /\ conn[c] = "closed" => status[c] = 404

\* GET /nonexistent has been answered 404 and the handler is returning, while
\* the slot holds a frame.
C8_Witness ==
    /\ cur # 0 /\ mpc = "hret"
    /\ req[cur] = [method |-> "GET", path |-> "/nonexistent"]
    /\ status[cur] = 404 /\ latest_frame # None

\* C9 (as claimed): a request with a method other than GET is answered 404
\* with no body.
C9_OtherMethod404 ==
    \A c \in Clients :
        (req[c].method # "GET" /\ conn[c] = "closed") =>
            status[c] = 404 /\ body[c] = <<>>

\* C9 (amended): a request with a method other than GET is answered 501 by
\* the base handler class, never reaches do_GET and never starts a stream;
\* only GET /video gets the 200 of a stream.
C9_OtherMethod501 ==
    \A c \in Clients :
        /\ req[c].method # "GET" =>
              /\ status[c] \in {0, 501}
              /\ conn[c] = "closed" => status[c] = 501
              /\ \A i \in DOMAIN body[c] : body[c][i].k = "errorpage"
              /\ cur = c => mpc \in {"dispatch", "h501", "hret", "herror"}
        /\ (status[c] = 200 \/ (cur = c /\ mpc \in LoopPCs)) =>
              req[c] = [method |-> "GET", path |-> "/video"]

\* POST /video has been answered 501 and its connection closed.
C9_Witness ==
    \E c \in Clients :
        /\ req[c] = [method |-> "POST", path |-> "/video"]
        /\ conn[c] = "closed" /\ status[c] = 501

\* C10 (as claimed): after an interrupt has set the stop flag, the process
\* does not end before the producer has left its loop and released the device
\* handle it opened.
C10_ReleasedBeforeExit ==
    (mpc = "exited" /\ ~running) => (cap # "open" /\ ppc \notin ProducerLoopPCs)

\* C11 (as claimed): once the stop flag is cleared it stays cleared, the
\* producer passes the loop head only towards cap.release() (so it finishes at
\* most the iteration in flight), nothing is read or published once the
\* handle is released, and a producer that still has the device open is never
\* cut off short of releasing it.
C11_StopStep ==
    /\ ~running => ~running'
    /\ (~running /\ ppc = "loop" /\ ppc' # "loop") => ppc' = "release"
    /\ (ppc = "release" /\ ppc' # "release") => ppc' = "done" /\ cap' = "released"
    /\ ppc = "done" => ppc' = "done" /\ UNCHANGED <<latest_frame, published, nframes>>

C11_StopState ==
    (~running /\ cap = "open") => ENABLED Producer

C11_PromptStop == []C11_StopState /\ [][C11_StopStep]_vars

\* The part chunk kinds in the order do_GET writes them.
PartKinds == <<"boundary", "ctype", "frame", "crlf">>

\* What has to be in the log of a connection that is i chunks into a part.
InPart(c, i) ==
    Len(body[c]) < 4 * MaxParts => Len(body[c]) % 4 = i

\* C12: the body of a /video connection is a sequence of parts, each the
\* chunks boundary, Content-Type, frame bytes, line break in that order, the
\* frame bytes being one published frame (the one copied on this tick); the
\* 200 and the stream headers are written before the first chunk; a tick that
\* copied None writes nothing; a tick that copied a frame writes its part
\* chunk by chunk.
C12_PartState ==
    /\ \A c \in Clients : req[c] = [method |-> "GET", path |-> "/video"] =>
          /\ body[c] # <<>> => status[c] = 200 /\ headers[c] = StreamHeaders
          /\ \A i \in DOMAIN body[c] :
                /\ body[c][i].k = PartKinds[((i - 1) % 4) + 1]
                /\ IF body[c][i].k = "frame"
                   THEN body[c][i].f \in published
                   ELSE body[c][i].f = None
    /\ mpc \in WritePCs => frame # None /\ frame \in published
    /\ mpc \in LoopPCs => status[cur] = 200 /\ headers[cur] = StreamHeaders
    /\ mpc \in {"hlock", "hcopy", "hunlock", "hcheck", "w1", "hsleep"} => InPart(cur, 0)
    /\ mpc = "w2" => InPart(cur, 1)
    /\ mpc = "w3" => InPart(cur, 2)
    /\ mpc = "w4" => /\ InPart(cur, 3)
                     /\ Len(body[cur]) < 4 * MaxParts =>
                           body[cur][Len(body[cur])] = Chunk("frame", frame)

C12_PartStep ==
    /\ (mpc = "hcheck" /\ mpc' \notin {"hcheck", "kbint"}) =>
          /\ mpc' = IF frame = None THEN "hsleep" ELSE "w1"
          /\ body' = body
    /\ (mpc \in WritePCs /\ body' # body) =>
          /\ body'[cur] = Append(body[cur], Chunk(PartKinds[(Len(body[cur]) % 4) + 1],
                                                  IF mpc = "w3" THEN frame ELSE None))
          /\ \A c \in Clients \ {cur} : body'[c] = body[c]

C12_Parts == []C12_PartState /\ [][C12_PartStep]_vars

\* A connection that first ticked on an empty slot has since written one
\* whole part carrying frame 1 and the first three chunks of a part carrying
\* frame 2.
C12_Witness ==
    /\ mpc = "w4" /\ frame = 2 /\ status[cur] = 200
    /\ body[cur] = <<Chunk("boundary", None), Chunk("ctype", None), Chunk("frame", 1),
                     Chunk("crlf", None), Chunk("boundary", None), Chunk("ctype", None),
                     Chunk("frame", 2)>>

\* The newest frame published so far (None before the first).
Newest == IF published = {} THEN None
          ELSE CHOOSE f \in published : \A g \in published : g <= f

\* C13: the slot holds the frame published last; a publish replaces the
\* content; a read returns the content of the slot; what a tick writes is the
\* frame it copied, which is no older than anything the connection has sent,
\* so that a frame superseded before the copy is never written afterwards.
C13_LatestState ==
    /\ latest_frame = Newest
    /\ mpc \in {"hunlock", "hcheck"} \cup WritePCs =>
          /\ \A i \in DOMAIN Sent(cur) : Sent(cur)[i] <= frame
          /\ frame <= latest_frame

C13_LatestStep ==
    /\ (ppc = "store" /\ ppc' = "unlock") => latest_frame' = buf /\ buf \notin published
    /\ (mpc = "hcopy" /\ mpc' = "hunlock") => frame' = latest_frame /\ frame' = Newest
    /\ (mpc = "w3" /\ mpc' = "w4" /\ body' # body) =>
          Sent(cur)' = Append(Sent(cur), frame) /\ frame' = frame

C13_LatestWins == []C13_LatestState /\ [][C13_LatestStep]_vars

\* Frame 1 was superseded by frame 2 before the connection's first copy: the
\* connection copied frame 2 and is writing it, having sent nothing before.
C13_Witness ==
    /\ mpc = "w3" /\ frame = 2 /\ Sent(cur) = <<>> /\ published = {1, 2}

\* C15: the slot changes only in the producer's store step.
C15_SingleWriter ==
    [][latest_frame' # latest_frame => (ppc = "store" /\ ppc' = "unlock")]_vars

\* The producer has just replaced frame 1 by frame 2 while a connection that
\* copied frame 1 is in its send loop and another connection has ended.
C15_Witness ==
    /\ ppc = "unlock" /\ latest_frame = 2
    /\ mpc \in WritePCs /\ frame = 1
    /\ \E c \in Clients : conn[c] \in {"closed", "aborted"}

\* C16: whoever holds the frame lock is between acquire and release: the
\* producer at its store, a handler at its copy; no holder is at a device
\* read, an encode, a sleep or a socket write.
C16_NoLockAcrossIO ==
    /\ frame_lock = "producer" => ppc \in {"store", "unlock"}
    /\ frame_lock = "handler" => mpc \in {"hcopy", "hunlock"}
    /\ ppc \in {"read", "backoff", "encode", "sleep", "release"} => frame_lock # "producer"
    /\ mpc \in WritePCs \cup {"hsleep", "h200", "h404", "h501"} => frame_lock # "handler"

\* The producer holds the lock for its store while a handler waits to acquire.
C16_Witness ==
    /\ frame_lock = "producer" /\ ppc = "store" /\ mpc = "hlock"

\* C17 (as claimed): a send loop ends only by a failed write of its own.
C17_LoopEndsByWriteFailure ==
    [][(mpc \in LoopPCs /\ mpc' \notin LoopPCs) =>
          (mpc \in WritePCs /\ mpc' = "hexcept")]_vars

\* C20: once the slot holds a frame it holds one in every later state; a copy
\* made after the first publish yields a frame, and a tick that copied a frame
\* goes on to write a part.
C20_NeverEmptyAgain ==
    [][/\ latest_frame # None => latest_frame' # None
       /\ (mpc = "hcopy" /\ mpc' = "hunlock" /\ published # {}) => frame' # None
       /\ (mpc = "hcheck" /\ frame # None /\ mpc' \notin {"hcheck", "kbint"}) => mpc' = "w1"]_vars

\* After a publish, failed reads and the end of another connection, a
\* connection has copied the frame and starts to write a part.
C20_Witness ==
    /\ latest_frame = 1 /\ fails = MaxFails /\ ppc = "backoff"
    /\ mpc = "w1" /\ frame = 1
    /\ \E c \in Clients : conn[c] = "closed"

\* C14: the copies made between two publishes all return the same value, and
\* a copy leaves the slot as it is.
C14_ReadIdempotent ==
    /\ [](Cardinality(reads) <= 1)
    /\ [][(mpc = "hcopy" /\ mpc' = "hunlock") =>
             /\ latest_frame' = latest_frame /\ published' = published
             /\ reads # {} => frame' \in reads]_vars

\* A second connection has copied frame 1, which an earlier connection had
\* copied and sent, with no publish in between.
C14_Witness ==
    /\ mpc = "hunlock" /\ frame = 1 /\ published = {1} /\ reads = {1}
    /\ \E c \in Clients : c # cur /\ Sent(c) = <<1>>

\* C18 (as claimed): for a rate below 1 frame per second, where 1/fps is above
\* any minimum tick, the pacing interval is 1/fps, longer than one second.
C18_IntervalIsReciprocal ==
    (interval # 0 /\ fps < 1000) =>
        interval = 1000000000 \div fps /\ interval > 1000000

\* C18 (amended): the interval is 1/max(fps, 1): 1/fps for a rate of at least
\* 1 frame per second, one second for a lower rate, never more than a second;
\* it is set once, and every pacing sleep lasts exactly that long.
C18_PacingState ==
    interval # 0 =>
        /\ interval = IF fps >= 1000 THEN 1000000000 \div fps ELSE 1000000
        /\ interval <= 1000000
        /\ paced \in {0, interval}

C18_PacingStep ==
    /\ interval # 0 => interval' = interval
    /\ (ppc = "sleep" /\ ppc' = "loop") => paced' = interval

C18_Pacing == []C18_PacingState /\ [][C18_PacingStep]_vars

\* At 0.5 frames per second the producer has slept one second after a publish.
C18_Witness ==
    /\ fps = 500 /\ paced = 1000000 /\ latest_frame = 1

\* C19: at most one thread is inside a critical section; the lock is held
\* exactly by a thread inside one, so that it is released on every way out
\* of a handler (return, write failure, interrupt); and a thread waiting for
\* the lock does not wait forever while the process lives.
C19_MutexState ==
    /\ ~(ppc \in {"store", "unlock"} /\ mpc \in {"hcopy", "hunlock"})
    /\ frame_lock = "producer" <=> ppc \in {"store", "unlock"}
    /\ frame_lock = "handler" <=> mpc \in {"hcopy", "hunlock"}

C19_LockNoDeadlock ==
    /\ []C19_MutexState
    /\ (ppc = "lock") ~> (ppc # "lock" \/ ~Alive)
    /\ (mpc = "hlock") ~> (mpc # "hlock")

\* The producer waits for the lock that a handler holds.
C19_Witness ==
    /\ ppc = "lock" /\ frame_lock = "handler" /\ mpc = "hunlock"
====
